---- MODULE Spec2Model ----
(***************************************************************************)
(* The asynchronous filesystem-operation engine of the file manager:       *)
(* the Command Channel, the Dispatch Loop (watch_directory), the Operation *)
(* Executors it spawns, the Directory Lister (list_directory), the Result  *)
(* Channel and the consumer's refresh (FileManager::update).               *)
(*                                                                         *)
(* A path is a sequence of names and a name is a sequence of characters,   *)
(* so that parent(), file_name() and starts_with('.') are computed.        *)
(***************************************************************************)
EXTENDS Integers, Sequences, FiniteSets, TLC

\* Number of Commands the collaborator sends in one run.
MaxCmds == 2

----------------------------------------------------------------------------
\* Names and paths

NameA == <<"a">>
NameB == <<"b">>
NameD == <<"d">>
NameSub == <<"s", "u", "b">>
NameX == <<".", "x">>

Root == <<>>
DirD == <<NameD>>
PathA == <<NameD, NameA>>
PathB == <<NameD, NameB>>
PathSub == <<NameD, NameSub>>
PathSubA == <<NameD, NameSub, NameA>>
PathSubX == <<NameD, NameSub, NameX>>

\* Path::parent(): None for the root
HasParent(p) == Len(p) > 0
Parent(p) == SubSeq(p, 1, Len(p) - 1)
FileName(p) == p[Len(p)]
Join(p, n) == Append(p, n)
IsPrefix(d, p) == Len(d) <= Len(p) /\ SubSeq(p, 1, Len(d)) = d
Rebase(q, from, to) == to \o SubSeq(q, Len(from) + 1, Len(q))

----------------------------------------------------------------------------
\* The filesystem: a function from the existing paths to their metadata

\* Metadata::len() of a directory: what the filesystem reports for the
\* directory file itself, not 0
DirLen == 4

FileNode(n) == [is_dir |-> FALSE, len |-> n]
DirNode == [is_dir |-> TRUE, len |-> DirLen]

Exists(f, p) == p \in DOMAIN f
IsDir(f, p) == p \in DOMAIN f /\ f[p].is_dir
IsFile(f, p) == p \in DOMAIN f /\ ~f[p].is_dir
Children(f, d) == {p \in DOMAIN f : Len(p) = Len(d) + 1 /\ Parent(p) = d}
Subtree(f, p) == {q \in DOMAIN f : IsPrefix(p, q)}
Without(f, S) == [q \in DOMAIN f \ S |-> f[q]]
With(f, p, node) == [q \in DOMAIN f \cup {p} |-> IF q = p THEN node ELSE f[q]]

\* Mutant: the file is opened, not created (fails when it does not exist)
FileCreateOk_MustExist(f, p) == IsFile(f, p)

\* fs::File::create: creates or truncates; fails if the parent is missing
\* or the path is a directory
FileCreateOk(f, p) == HasParent(p) /\ IsDir(f, Parent(p)) /\ ~IsDir(f, p)
FileCreate(f, p) == With(f, p, FileNode(0))

\* fs::create_dir: fails if the path exists or the parent is missing
CreateDirOk(f, p) == HasParent(p) /\ IsDir(f, Parent(p)) /\ ~Exists(f, p)

\* Mutant: creating a directory empties its parent first
CreateDir_Clobber(f, p) ==
    With(Without(f, {q \in DOMAIN f : IsPrefix(Parent(p), q)
                                        /\ q # Parent(p)}),
         p, DirNode)

CreateDir(f, p) == With(f, p, DirNode)

\* fs::remove_dir_all / fs::remove_file
RemoveDirAllOk(f, p) == HasParent(p) /\ IsDir(f, p)
RemoveFileOk(f, p) == IsFile(f, p)

\* Mutant: the removal of a directory also takes the other entries of its
\* parent
RemoveTree_Siblings(f, p) ==
    Without(f, {q \in DOMAIN f : IsPrefix(Parent(p), q) /\ q # Parent(p)})

RemoveTree(f, p) == Without(f, Subtree(f, p))

\* fs::rename: replaces a file or an empty directory at the destination
RenameOk(f, from, to) ==
    /\ HasParent(from) /\ Exists(f, from)
    /\ HasParent(to) /\ IsDir(f, Parent(to))
    /\ \/ from = to
       \/ /\ ~IsPrefix(from, to)
          /\ IF f[from].is_dir
               THEN ~Exists(f, to) \/ (IsDir(f, to) /\ Children(f, to) = {})
               ELSE ~IsDir(f, to)

\* Mutant: the source stays in place (a copy, not a rename)
Rename_KeepsSource(f, from, to) ==
    IF from = to THEN f
    ELSE LET moved == Subtree(f, from)
             kept == DOMAIN f \ Subtree(f, to)
         IN [q \in kept \cup {Rebase(m, from, to) : m \in moved} |->
                IF IsPrefix(to, q) THEN f[Rebase(q, to, from)] ELSE f[q]]

Rename(f, from, to) ==
    IF from = to THEN f
    ELSE LET moved == Subtree(f, from)
             kept == DOMAIN f \ (moved \cup Subtree(f, to))
         IN [q \in kept \cup {Rebase(m, from, to) : m \in moved} |->
                IF IsPrefix(to, q) THEN f[Rebase(q, to, from)] ELSE f[q]]

\* fs::copy: byte copy of a regular file; the destination is opened with
\* truncation, so copying a file onto itself empties it
CopyFileOk(f, from, to) ==
    IsFile(f, from) /\ HasParent(to) /\ IsDir(f, Parent(to)) /\ ~IsDir(f, to)
CopyFile(f, from, to) ==
    With(f, to, FileNode(IF from = to THEN 0 ELSE f[from].len))

\* fs_extra::dir::copy(from, dest, overwrite): copies the tree `from` to
\* dest/file_name(from); directories that exist are kept, files are
\* overwritten.  A type conflict at the destination is a failure (no change).
CopyTarget(from, dest) == Join(dest, FileName(from))
CopyDirOk(f, from, dest) ==
    /\ HasParent(from) /\ IsDir(f, from) /\ IsDir(f, dest)
    /\ \A q \in Subtree(f, from) :
          LET t == Rebase(q, from, CopyTarget(from, dest))
          IN Exists(f, t) => (f[t].is_dir = f[q].is_dir)
CopyDir(f, from, dest) ==
    LET src == Subtree(f, from)
        tgt == CopyTarget(from, dest)
        new == {Rebase(q, from, tgt) : q \in src}
    IN [t \in DOMAIN f \cup new |->
          IF t \in new
            THEN LET q == Rebase(t, tgt, from)
                 IN IF f[q].is_dir THEN DirNode
                    ELSE FileNode(IF t = q THEN 0 ELSE f[q].len)
            ELSE f[t]]

----------------------------------------------------------------------------
\* Item Records

\* Mutant: the hidden flag is a file attribute, which no entry here has
StartsWithDot_Attribute(name) == FALSE

StartsWithDot(name) == Len(name) > 0 /\ name[1] = "."

\* Mutant: the size of a record is metadata.len() whatever the entry is
ItemOf_RawLen(f, p) ==
    [path |-> p,
     is_dir |-> f[p].is_dir,
     size |-> f[p].len,
     is_hidden |-> StartsWithDot(FileName(p))]

\* The FileSystemItem list_directory builds from one entry's metadata
ItemOf(f, p) ==
    [path |-> p,
     is_dir |-> f[p].is_dir,
     size |-> IF f[p].is_dir THEN 0 ELSE f[p].len,
     is_hidden |-> StartsWithDot(FileName(p))]

\* What a directory contains in one filesystem state
Listing(f, d) == {ItemOf(f, p) : p \in Children(f, d)}

Range(s) == {s[i] : i \in 1..Len(s)}

----------------------------------------------------------------------------
\* Commands (FileSystemEvent)

Cmd(k, p, q) == [kind |-> k, p |-> p, q |-> q]

ListDirectory(p) == Cmd("ListDirectory", p, Root)
CreateFile(p) == Cmd("CreateFile", p, Root)
CreateFolder(p) == Cmd("CreateFolder", p, Root)
DeleteItem(p) == Cmd("DeleteItem", p, Root)
RenameItem(from, to) == Cmd("RenameItem", from, to)
CopyItem(from, to) == Cmd("CopyItem", from, to)
MoveItem(from, to) == Cmd("MoveItem", from, to)
OpenFile(p) == Cmd("OpenFile", p, Root)
OpenTerminal(p) == Cmd("OpenTerminal", p, Root)
NewWindow == Cmd("NewWindow", Root, Root)

\* The Commands the collaborator sends in this model
Cmds ==
    {ListDirectory(DirD),
     CreateFile(PathA), CreateFile(PathSubX),
     CreateFolder(PathSub),
     DeleteItem(PathA), DeleteItem(PathSub),
     RenameItem(PathA, PathB),
     CopyItem(PathA, PathB), CopyItem(PathSub, <<NameSub>>),
     CopyItem(PathSub, PathSub),
     MoveItem(PathA, PathSubA),
     OpenFile(PathA), OpenTerminal(PathSub), NewWindow}

\* The directory trees a run starts from
EmptyTree == (Root :> DirNode) @@ (DirD :> DirNode)
FullTree ==
    EmptyTree @@ (PathA :> FileNode(1)) @@ (PathSub :> DirNode)
              @@ (PathSubX :> FileNode(1))
InitTrees == {EmptyTree, FullTree}

----------------------------------------------------------------------------
VARIABLES
    fs,         \* the filesystem
    fsHist,     \* history: every state the filesystem has been in, in order
    cmdq,       \* Command Channel: Commands sent and not yet received
    uiAlive,    \* the FileManager (event_tx and rx) has not been dropped
    loop_pc,    \* Dispatch Loop: "try_recv", "sleep" or "break"
    tasks,      \* the spawned executors, in launch order
    resq,       \* Result Channel: snapshots sent and not yet received
    items,      \* FileManager.items
    sent,       \* history: every Command sent, in order
    sentAfter,  \* history: how many snapshots update() had received when
                \* each Command was sent
    current_path, \* FileManager.current_path
    history,        \* FileManager.history
    history_index,  \* FileManager.history_index (usize)
    selected_items, \* FileManager.selected_items
    clipboard,      \* FileManager.clipboard: <<>> (None) or <<item>> (Some)
    ui_pc,          \* the interface thread: before FileManager::new, running,
                    \* or ended by a panic
    overflow_checks, \* the build: arithmetic overflow panics (debug profile)
                    \* or wraps (release profile)
    underflow,      \* history: a usize subtraction went below zero
    pushed,     \* history: every snapshot sent on the Result Channel
    delivered   \* history: every snapshot update() received

vars == <<fs, fsHist, cmdq, uiAlive, loop_pc, tasks, resq, items, sent,
          sentAfter, current_path, history, history_index, selected_items,
          clipboard, ui_pc, overflow_checks, underflow, pushed, delivered>>

\* An executor right after task::spawn
NewTask(msg, now) ==
    [id |-> msg.id, cmd |-> msg.cmd, pc |-> "start", since |-> now,
     is_dir |-> FALSE, effect |-> "none", listed |-> FALSE, err |-> "none",
     dir |-> Root, opened |-> 0, unread |-> FALSE, todo |-> {}, seen |-> {},
     entry |-> <<>>, acc |-> <<>>, cwd |-> Root]

\* The executor ends (normally or by a panic); its locals are dropped
Finish(t) == [t EXCEPT !.pc = "done", !.opened = 0, !.unread = FALSE,
                       !.todo = {}, !.seen = {}, !.entry = <<>>, !.acc = <<>>]
Panic(t) == [Finish(t) EXCEPT !.pc = "panicked"]

\* The terminal was spawned with the working directory wd
Launched(t, wd) == [Finish(t) EXCEPT !.cwd = wd]

\* The executor goes on to call list_directory(d)
BeginList(t, d) == [t EXCEPT !.pc = "read_dir", !.dir = d]

Outcome(ok) == IF ok THEN "ok" ELSE "failed"

\* The channels are empty, the loop is at its first try_recv, and no
\* executor was launched
InitEngine ==
    /\ fs \in InitTrees
    /\ fsHist = <<fs>>
    /\ cmdq = <<>>
    /\ uiAlive = TRUE
    /\ loop_pc = "try_recv"
    /\ tasks = <<>>
    /\ resq = <<>>
    /\ items = <<>>
    /\ sent = <<>>
    /\ sentAfter = <<>>
    /\ pushed = <<>>
    /\ delivered = <<>>

\* The FileManager was constructed in d, with d the only entry of its
\* history
Init ==
    /\ InitEngine
    /\ current_path = DirD
    /\ history = <<DirD>>
    /\ history_index = 0
    /\ selected_items = {}
    /\ clipboard = <<>>
    /\ ui_pc = "run"
    /\ overflow_checks = FALSE
    /\ underflow = FALSE

----------------------------------------------------------------------------
\* The collaborator

\* event_tx.send(c): every FileManager handler that sends a Command.
\* ListDirectory is sent by navigate_to and refresh only, with the path
\* that is current_path afterwards.
Send(c) ==
    /\ uiAlive
    /\ Len(sent) < MaxCmds
    /\ cmdq' = Append(cmdq, [id |-> Len(sent) + 1, cmd |-> c])
    /\ sent' = Append(sent, c)
    /\ sentAfter' = Append(sentAfter, Len(delivered))
    /\ current_path' = IF c.kind = "ListDirectory" THEN c.p ELSE current_path
    /\ UNCHANGED <<history, history_index, selected_items, clipboard, ui_pc,
                   overflow_checks, underflow>>
    /\ UNCHANGED <<fs, fsHist, uiAlive, loop_pc, tasks, resq, items, pushed,
                   delivered>>

\* FileManager::open_in_terminal: the directory itself, or the parent of
\* what is not a directory (the path itself when it has no parent)
TerminalPath(f, path) ==
    IF IsDir(f, path) THEN path
    ELSE IF HasParent(path) THEN Parent(path) ELSE path

\* The paths the interface has shown: a selection, the clipboard, the item
\* of a context menu, item_to_delete and renaming_item all hold the path of
\* a record of some snapshot received earlier
Shown == UNION {{it.path : it \in Range(delivered[k].items)} :
                   k \in 1..Len(delivered)}

\* The Commands the handlers of FileManager can send in the current state
CanSend(c) ==
    CASE c.kind = "ListDirectory" ->
            \* navigate_to sends when path.is_dir(); refresh always sends
            \* current_path
            IsDir(fs, c.p) \/ c.p = current_path
      [] c.kind \in {"CreateFile", "CreateFolder"} ->
            \* current_path.join(name)
            HasParent(c.p) /\ Parent(c.p) = current_path
      [] c.kind = "DeleteItem" -> c.p \in Shown
      [] c.kind = "RenameItem" ->
            \* path.with_file_name(new_name)
            /\ c.p \in Shown
            /\ HasParent(c.q) /\ Parent(c.q) = Parent(c.p)
      [] c.kind \in {"CopyItem", "MoveItem"} ->
            \* paste: current_path.join(file_name of the clipboard item)
            c.p \in Shown /\ c.q = Join(current_path, FileName(c.p))
      [] c.kind = "OpenFile" ->
            \* open_item opens what is not a directory
            c.p \in Shown /\ ~IsDir(fs, c.p)
      [] c.kind = "OpenTerminal" ->
            \E path \in Shown \cup {current_path} :
                c.p = TerminalPath(fs, path)
      [] OTHER -> c.kind = "NewWindow"

\* A handler of FileManager runs and sends its Command
Handle(c) == CanSend(c) /\ Send(c)

\* The FileManager is dropped when the window closes: rx and event_tx go,
\* and the snapshots still queued go with rx
Close ==
    /\ uiAlive
    /\ uiAlive' = FALSE
    /\ resq' = <<>>
    /\ UNCHANGED <<fs, fsHist, cmdq, loop_pc, tasks, items, sent, sentAfter,
                   current_path, history, history_index, selected_items,
                   clipboard, ui_pc, overflow_checks, underflow, pushed,
                   delivered>>

\* Mutant: a refresh appends the received records to the working set
Update_Merge ==
    /\ uiAlive
    /\ \/ /\ resq # <<>>
          /\ items' = items \o Head(resq).items
          /\ resq' = Tail(resq)
          /\ delivered' = Append(delivered, Head(resq))
       \/ /\ resq = <<>>
          /\ UNCHANGED <<resq, items, delivered>>
    /\ UNCHANGED <<fs, fsHist, cmdq, uiAlive, loop_pc, tasks, sent, sentAfter,
                   current_path, history, history_index, selected_items,
                   clipboard, ui_pc, overflow_checks, underflow, pushed>>

\* Mutant: a refresh drains the channel and keeps only the newest snapshot
Update_Drain ==
    /\ uiAlive
    /\ \/ /\ resq # <<>>
          /\ items' = resq[Len(resq)].items
          /\ resq' = <<>>
          /\ delivered' = Append(delivered, resq[Len(resq)])
       \/ /\ resq = <<>>
          /\ UNCHANGED <<resq, items, delivered>>
    /\ UNCHANGED <<fs, fsHist, cmdq, uiAlive, loop_pc, tasks, sent, sentAfter,
                   current_path, history, history_index, selected_items,
                   clipboard, ui_pc, overflow_checks, underflow, pushed>>

\* FileManager::update: one try_recv per refresh
Update ==
    /\ uiAlive
    /\ \/ /\ resq # <<>>
          /\ items' = Head(resq).items
          /\ resq' = Tail(resq)
          /\ delivered' = Append(delivered, Head(resq))
       \/ /\ resq = <<>>
          /\ UNCHANGED <<resq, items, delivered>>
    /\ UNCHANGED <<fs, fsHist, cmdq, uiAlive, loop_pc, tasks, sent, sentAfter,
                   current_path, history, history_index, selected_items,
                   clipboard, ui_pc, overflow_checks, underflow, pushed>>

----------------------------------------------------------------------------
\* The Dispatch Loop (watch_directory)

\* Mutant: the newest message is received first
Recv_Newest(q) == [msg |-> q[Len(q)], rest |-> SubSeq(q, 1, Len(q) - 1)]

\* Mutant: the received message stays in the channel
Recv_Peek(q) == [msg |-> Head(q), rest |-> q]

\* rx.try_recv() on a non-empty channel: the oldest message and the rest
Recv(q) == [msg |-> Head(q), rest |-> Tail(q)]

\* Mutant: the loop awaits the executors it has spawned before it receives
\* again
LoopRecv_Await ==
    /\ loop_pc = "try_recv"
    /\ \A i \in 1..Len(tasks) : tasks[i].pc \in {"done", "panicked"}
    /\ \/ /\ cmdq # <<>>
          /\ tasks' = Append(tasks, NewTask(Recv(cmdq).msg, Len(fsHist)))
          /\ cmdq' = Recv(cmdq).rest
          /\ loop_pc' = "sleep"
       \/ /\ cmdq = <<>> /\ uiAlive
          /\ loop_pc' = "sleep"
          /\ UNCHANGED <<cmdq, tasks>>
       \/ /\ cmdq = <<>> /\ ~uiAlive
          /\ loop_pc' = "break"
          /\ UNCHANGED <<cmdq, tasks>>
    /\ UNCHANGED <<fs, fsHist, uiAlive, resq, items, sent, sentAfter,
                   current_path, history, history_index, selected_items,
                   clipboard, ui_pc, overflow_checks, underflow, pushed,
                   delivered>>

\* Mutant: a disconnected channel is treated like an empty one
LoopRecv_NoBreak ==
    /\ loop_pc = "try_recv"
    /\ \/ /\ cmdq # <<>>
          /\ tasks' = Append(tasks, NewTask(Recv(cmdq).msg, Len(fsHist)))
          /\ cmdq' = Recv(cmdq).rest
          /\ loop_pc' = "sleep"
       \/ /\ cmdq = <<>>
          /\ loop_pc' = "sleep"
          /\ UNCHANGED <<cmdq, tasks>>
    /\ UNCHANGED <<fs, fsHist, uiAlive, resq, items, sent, sentAfter,
                   current_path, history, history_index, selected_items,
                   clipboard, ui_pc, overflow_checks, underflow, pushed,
                   delivered>>

\* Mutant: after a Command was received the loop receives again at once,
\* and sleeps only when the channel is empty
LoopRecv_Burst ==
    /\ loop_pc = "try_recv"
    /\ \/ /\ cmdq # <<>>
          /\ tasks' = Append(tasks, NewTask(Recv(cmdq).msg, Len(fsHist)))
          /\ cmdq' = Recv(cmdq).rest
          /\ loop_pc' = "try_recv"
       \/ /\ cmdq = <<>> /\ uiAlive
          /\ loop_pc' = "sleep"
          /\ UNCHANGED <<cmdq, tasks>>
       \/ /\ cmdq = <<>> /\ ~uiAlive
          /\ loop_pc' = "break"
          /\ UNCHANGED <<cmdq, tasks>>
    /\ UNCHANGED <<fs, fsHist, uiAlive, resq, items, sent, sentAfter,
                   current_path, history, history_index, selected_items,
                   clipboard, ui_pc, overflow_checks, underflow, pushed,
                   delivered>>

\* Mutant: the loop ends as soon as the sender is gone, whatever is still
\* queued
LoopRecv_BreakOnClose ==
    /\ loop_pc = "try_recv"
    /\ \/ /\ cmdq # <<>> /\ uiAlive
          /\ tasks' = Append(tasks, NewTask(Recv(cmdq).msg, Len(fsHist)))
          /\ cmdq' = Recv(cmdq).rest
          /\ loop_pc' = "sleep"
       \/ /\ cmdq = <<>> /\ uiAlive
          /\ loop_pc' = "sleep"
          /\ UNCHANGED <<cmdq, tasks>>
       \/ /\ ~uiAlive
          /\ loop_pc' = "break"
          /\ UNCHANGED <<cmdq, tasks>>
    /\ UNCHANGED <<fs, fsHist, uiAlive, resq, items, sent, sentAfter,
                   current_path, history, history_index, selected_items,
                   clipboard, ui_pc, overflow_checks, underflow, pushed,
                   delivered>>

\* Mutant: the loop owns its executors and cancels those still running
\* when it ends
LoopRecv_AbortAll ==
    /\ loop_pc = "try_recv"
    /\ \/ /\ cmdq # <<>>
          /\ tasks' = Append(tasks, NewTask(Recv(cmdq).msg, Len(fsHist)))
          /\ cmdq' = Recv(cmdq).rest
          /\ loop_pc' = "sleep"
       \/ /\ cmdq = <<>> /\ uiAlive
          /\ loop_pc' = "sleep"
          /\ UNCHANGED <<cmdq, tasks>>
       \/ /\ cmdq = <<>> /\ ~uiAlive
          /\ loop_pc' = "break"
          /\ tasks' = [i \in 1..Len(tasks) |->
                          IF tasks[i].pc \in {"done", "panicked"}
                            THEN tasks[i]
                            ELSE [Finish(tasks[i]) EXCEPT !.pc = "aborted"]]
          /\ UNCHANGED cmdq
    /\ UNCHANGED <<fs, fsHist, uiAlive, resq, items, sent, sentAfter,
                   current_path, history, history_index, selected_items,
                   clipboard, ui_pc, overflow_checks, underflow, pushed,
                   delivered>>

\* One iteration's try_recv: a Command is received and its executor is
\* spawned; or the channel is empty (Empty); or it is empty and the sender
\* is gone (Disconnected), and the loop ends
LoopRecv ==
    /\ loop_pc = "try_recv"
    /\ \/ /\ cmdq # <<>>
          /\ tasks' = Append(tasks, NewTask(Recv(cmdq).msg, Len(fsHist)))
          /\ cmdq' = Recv(cmdq).rest
          /\ loop_pc' = "sleep"
       \/ /\ cmdq = <<>> /\ uiAlive
          /\ loop_pc' = "sleep"
          /\ UNCHANGED <<cmdq, tasks>>
       \/ /\ cmdq = <<>> /\ ~uiAlive
          /\ loop_pc' = "break"
          /\ UNCHANGED <<cmdq, tasks>>
    /\ UNCHANGED <<fs, fsHist, uiAlive, resq, items, sent, sentAfter,
                   current_path, history, history_index, selected_items,
                   clipboard, ui_pc, overflow_checks, underflow, pushed,
                   delivered>>

\* tokio::time::sleep(50 ms).await, then the next iteration
LoopSleep ==
    /\ loop_pc = "sleep"
    /\ loop_pc' = "try_recv"
    /\ UNCHANGED <<fs, fsHist, cmdq, uiAlive, tasks, resq, items, sent,
                   sentAfter, current_path, history, history_index,
                   selected_items, clipboard, ui_pc, overflow_checks,
                   underflow, pushed, delivered>>

----------------------------------------------------------------------------
\* The Operation Executors (the task spawned for each Command)

\* Mutant: the two-path arms re-list the parent of `from`
RelistTarget_From(cmd) == cmd.p

\* The path whose parent an arm re-lists: `path`, or `to` for the
\* two-path Commands
RelistTarget(cmd) ==
    IF cmd.kind \in {"RenameItem", "CopyItem", "MoveItem"} THEN cmd.q
    ELSE cmd.p

\* DeleteItem, CopyItem: `let _ = <effect>`, then the parent is re-listed
RelistAlways(t, ok) ==
    LET u == [t EXCEPT !.effect = Outcome(ok)]
        target == RelistTarget(t.cmd)
    IN IF HasParent(target) THEN BeginList(u, Parent(target))
       ELSE Finish(u)

\* Mutant: the arm discards the result of its side effect
RelistIfOk_IgnoringResult(t, ok) == RelistAlways(t, ok)

\* CreateFile, CreateFolder, RenameItem, MoveItem: `if <effect>.is_ok()`
\* guards the re-listing of the parent
RelistIfOk(t, ok) ==
    LET u == [t EXCEPT !.effect = Outcome(ok)]
        target == RelistTarget(t.cmd)
    IN IF ok /\ HasParent(target) THEN BeginList(u, Parent(target))
       ELSE Finish(u)

\* What one executor step does: the executor afterwards, the filesystem
\* afterwards, and the entries removed or replaced by the step
Res(t, f, gone) == [task |-> t, fs |-> f, gone |-> gone]

\* First step of each arm of `match event`
StartArm(t, f) ==
    LET p == t.cmd.p
        q == t.cmd.q
    IN CASE t.cmd.kind = "ListDirectory" ->
              Res(BeginList(t, p), f, {})
         [] t.cmd.kind = "CreateFile" ->
              IF FileCreateOk(f, p)
                THEN Res(RelistIfOk(t, TRUE), FileCreate(f, p), {})
                ELSE Res(RelistIfOk(t, FALSE), f, {})
         [] t.cmd.kind = "CreateFolder" ->
              IF CreateDirOk(f, p)
                THEN Res(RelistIfOk(t, TRUE), CreateDir(f, p), {})
                ELSE Res(RelistIfOk(t, FALSE), f, {})
         [] t.cmd.kind \in {"RenameItem", "MoveItem"} ->
              IF RenameOk(f, p, q)
                THEN Res(RelistIfOk(t, TRUE), Rename(f, p, q),
                         IF p = q THEN {}
                         ELSE Subtree(f, p) \cup Subtree(f, q))
                ELSE Res(RelistIfOk(t, FALSE), f, {})
         [] t.cmd.kind = "DeleteItem" ->
              Res([t EXCEPT !.pc = "act", !.is_dir = IsDir(f, p)], f, {})
         [] t.cmd.kind = "CopyItem" ->
              Res([t EXCEPT !.pc = "act", !.is_dir = IsDir(f, p)], f, {})

\* Second step of the DeleteItem and CopyItem arms: the side effect chosen
\* by the is_dir() test made before it
ActArm(t, f) ==
    LET p == t.cmd.p
        q == t.cmd.q
    IN CASE t.cmd.kind = "DeleteItem" ->
              IF (t.is_dir /\ RemoveDirAllOk(f, p))
                     \/ (~t.is_dir /\ RemoveFileOk(f, p))
                THEN Res(RelistAlways(t, TRUE), RemoveTree(f, p),
                         Subtree(f, p))
                ELSE Res(RelistAlways(t, FALSE), f, {})
         [] t.cmd.kind = "CopyItem" ->
              IF t.is_dir
                THEN IF ~HasParent(q) THEN Res(Panic(t), f, {})
                     ELSE IF CopyDirOk(f, p, Parent(q))
                       THEN Res(RelistAlways(t, TRUE),
                                CopyDir(f, p, Parent(q)), {})
                       ELSE Res(RelistAlways(t, FALSE), f, {})
                ELSE IF CopyFileOk(f, p, q)
                       THEN Res(RelistAlways(t, TRUE), CopyFile(f, p, q), {})
                       ELSE Res(RelistAlways(t, FALSE), f, {})

\* A directory stream need not return an entry removed or replaced after
\* its first read, and may return an entry created after that, again if it
\* has returned one of that name before
Forget(ts, gone) ==
    IF gone = {} THEN ts
    ELSE [i \in 1..Len(ts) |->
            IF ts[i].pc \in {"next_entry", "metadata"}
              THEN [ts[i] EXCEPT
                      !.todo = {n \in @ : Join(ts[i].dir, n) \notin gone},
                      !.seen = {n \in @ : Join(ts[i].dir, n) \notin gone}]
              ELSE ts[i]]

\* Mutant: the side effect of an executor does not reach the filesystem
Apply_Discarded(i, r) ==
    /\ tasks' = [tasks EXCEPT ![i] = r.task]
    /\ UNCHANGED <<fs, fsHist>>

Apply(i, r) ==
    /\ tasks' = Forget([tasks EXCEPT ![i] = r.task], r.gone)
    /\ fs' = r.fs
    /\ fsHist' = IF r.fs = fs THEN fsHist ELSE Append(fsHist, r.fs)

\* Mutant: an executor starts only after the executors launched before it
\* have ended
ExecStart_Serial(i) ==
    /\ tasks[i].pc = "start"
    /\ \A j \in 1..(i - 1) : tasks[j].pc \in {"done", "panicked"}
    /\ tasks[i].cmd.kind \notin {"OpenFile", "OpenTerminal", "NewWindow"}
    /\ Apply(i, StartArm(tasks[i], fs))
    /\ UNCHANGED <<cmdq, uiAlive, loop_pc, resq, items, sent, sentAfter,
                   current_path, history, history_index, selected_items,
                   clipboard, ui_pc, overflow_checks, underflow, pushed,
                   delivered>>

ExecStart(i) ==
    /\ tasks[i].pc = "start"
    /\ tasks[i].cmd.kind \notin {"OpenFile", "OpenTerminal", "NewWindow"}
    /\ Apply(i, StartArm(tasks[i], fs))
    /\ UNCHANGED <<cmdq, uiAlive, loop_pc, resq, items, sent, sentAfter,
                   current_path, history, history_index, selected_items,
                   clipboard, ui_pc, overflow_checks, underflow, pushed,
                   delivered>>

ExecAct(i) ==
    /\ tasks[i].pc = "act"
    /\ Apply(i, ActArm(tasks[i], fs))
    /\ UNCHANGED <<cmdq, uiAlive, loop_pc, resq, items, sent, sentAfter,
                   current_path, history, history_index, selected_items,
                   clipboard, ui_pc, overflow_checks, underflow, pushed,
                   delivered>>

\* Mutant: the panic of a launch takes the whole engine down
ExecLaunch_Abort(i) ==
    /\ tasks[i].pc = "start"
    /\ tasks[i].cmd.kind \in {"OpenFile", "OpenTerminal", "NewWindow"}
    /\ \/ /\ tasks' = [tasks EXCEPT ![i] = Finish(@)]
          /\ UNCHANGED loop_pc
       \/ /\ tasks[i].cmd.kind \in {"OpenTerminal", "NewWindow"}
          /\ tasks' = [tasks EXCEPT ![i] = Panic(@)]
          /\ loop_pc' = "break"
    /\ UNCHANGED <<fs, fsHist, cmdq, uiAlive, resq, items, sent, sentAfter,
                   current_path, history, history_index, selected_items,
                   clipboard, ui_pc, overflow_checks, underflow, pushed,
                   delivered>>

\* Mutant: after the launch the executor lists the directory it was given
ExecLaunch_Relist(i) ==
    /\ tasks[i].pc = "start"
    /\ tasks[i].cmd.kind \in {"OpenFile", "OpenTerminal", "NewWindow"}
    /\ \/ tasks' = [tasks EXCEPT ![i] = BeginList(@, tasks[i].cmd.p)]
       \/ /\ tasks[i].cmd.kind \in {"OpenTerminal", "NewWindow"}
          /\ tasks' = [tasks EXCEPT ![i] = Panic(@)]
    /\ UNCHANGED <<fs, fsHist, cmdq, uiAlive, loop_pc, resq, items, sent,
                   sentAfter, current_path, history, history_index,
                   selected_items, clipboard, ui_pc, overflow_checks,
                   underflow, pushed, delivered>>

\* Mutant: the executor falls back to the parent when its path is not a
\* directory
ExecLaunch_Fallback(i) ==
    /\ tasks[i].pc = "start"
    /\ tasks[i].cmd.kind \in {"OpenFile", "OpenTerminal", "NewWindow"}
    /\ \/ /\ tasks[i].cmd.kind = "OpenTerminal"
                => IsDir(fs, TerminalPath(fs, tasks[i].cmd.p))
          /\ tasks' = [tasks EXCEPT ![i] =
                          IF tasks[i].cmd.kind = "OpenTerminal"
                            THEN Launched(@, TerminalPath(fs, tasks[i].cmd.p))
                            ELSE Finish(@)]
       \/ /\ tasks[i].cmd.kind \in {"OpenTerminal", "NewWindow"}
          /\ tasks' = [tasks EXCEPT ![i] = Panic(@)]
    /\ UNCHANGED <<fs, fsHist, cmdq, uiAlive, loop_pc, resq, items, sent,
                   sentAfter, current_path, history, history_index,
                   selected_items, clipboard, ui_pc, overflow_checks,
                   underflow, pushed, delivered>>

\* OpenFile, OpenTerminal, NewWindow: a process launch.  open::that and the
\* self-relaunch discard their result; the terminal launch is expect()ed
\* and current_exe() is unwrap()ped, so their failure panics the executor.
\* The terminal is spawned with current_dir(&path), the path of the Command
\* as it is: the spawn succeeds only if that path is a directory then (and
\* the terminal program can be started at all).
ExecLaunch(i) ==
    /\ tasks[i].pc = "start"
    /\ tasks[i].cmd.kind \in {"OpenFile", "OpenTerminal", "NewWindow"}
    /\ \/ /\ tasks[i].cmd.kind = "OpenTerminal" => IsDir(fs, tasks[i].cmd.p)
          /\ tasks' = [tasks EXCEPT ![i] =
                          IF tasks[i].cmd.kind = "OpenTerminal"
                            THEN Launched(@, tasks[i].cmd.p)
                            ELSE Finish(@)]
       \/ /\ tasks[i].cmd.kind \in {"OpenTerminal", "NewWindow"}
          /\ tasks' = [tasks EXCEPT ![i] = Panic(@)]
    /\ UNCHANGED <<fs, fsHist, cmdq, uiAlive, loop_pc, resq, items, sent,
                   sentAfter, current_path, history, history_index,
                   selected_items, clipboard, ui_pc, overflow_checks,
                   underflow, pushed, delivered>>

----------------------------------------------------------------------------
\* The Directory Lister (list_directory) and the send of its result

NamesIn(f, d) == {FileName(p) : p \in Children(f, d)}

\* fs::read_dir(path)?: opens the directory; no entry is read yet
ReadDirStep(t, f, now) ==
    IF IsDir(f, t.dir)
      THEN [t EXCEPT !.pc = "next_entry", !.listed = TRUE, !.opened = now,
                     !.unread = TRUE]
      ELSE [Finish(t) EXCEPT !.listed = TRUE, !.err = "read_dir"]

\* Mutant: an entry whose metadata cannot be read is recorded as an empty
\* file instead of failing the listing
MetadataStep_Default(t, f) ==
    LET p == Join(t.dir, t.entry)
    IN [t EXCEPT !.pc = "next_entry", !.entry = <<>>,
                 !.acc = Append(@, IF Exists(f, p) THEN ItemOf(f, p)
                                   ELSE [path |-> p, is_dir |-> FALSE,
                                         size |-> 0, is_hidden |-> FALSE])]

\* Mutant: an entry whose metadata cannot be read is skipped and the
\* listing goes on
MetadataStep_Skip(t, f) ==
    LET p == Join(t.dir, t.entry)
    IN IF Exists(f, p)
         THEN [t EXCEPT !.pc = "next_entry", !.entry = <<>>,
                        !.acc = Append(@, ItemOf(f, p))]
         ELSE [t EXCEPT !.pc = "next_entry", !.entry = <<>>,
                        !.err = "metadata"]

\* Mutant: the record of an entry replaces the records read before it
MetadataStep_KeepLast(t, f) ==
    LET p == Join(t.dir, t.entry)
    IN IF Exists(f, p)
         THEN [t EXCEPT !.pc = "next_entry", !.entry = <<>>,
                        !.acc = <<ItemOf(f, p)>>]
         ELSE [Finish(t) EXCEPT !.err = "metadata"]

\* entry.metadata()? and the push of the FileSystemItem
MetadataStep(t, f) ==
    LET p == Join(t.dir, t.entry)
    IN IF Exists(f, p)
         THEN [t EXCEPT !.pc = "next_entry", !.entry = <<>>,
                        !.acc = Append(@, ItemOf(f, p))]
         ELSE [Finish(t) EXCEPT !.err = "metadata"]

\* The snapshot an executor sends
Snapshot(t, now) ==
    [task |-> t.id, dir |-> t.dir, since |-> t.since, opened |-> t.opened,
     at |-> now, items |-> t.acc]

ReadDir(i) ==
    /\ tasks[i].pc = "read_dir"
    /\ tasks' = [tasks EXCEPT ![i] = ReadDirStep(@, fs, Len(fsHist))]
    /\ UNCHANGED <<fs, fsHist, cmdq, uiAlive, loop_pc, resq, items, sent,
                   sentAfter, current_path, history, history_index,
                   selected_items, clipboard, ui_pc, overflow_checks,
                   underflow, pushed, delivered>>

\* The entries the iterator has still to return: those in the directory at
\* its first read that were neither returned nor removed since
Todo(t, f) == IF t.unread THEN NamesIn(f, t.dir) ELSE t.todo

\* The iterator yields an entry it has not returned yet, or ends once it has
\* returned every entry that has been there since its first read; at its
\* end list_directory returns Ok(items) and the arm does
\* tx.send(items).unwrap()
NextEntry(i) ==
    /\ tasks[i].pc = "next_entry"
    /\ \/ /\ \E n \in NamesIn(fs, tasks[i].dir) \ tasks[i].seen :
                tasks' = [tasks EXCEPT ![i].pc = "metadata",
                                       ![i].entry = n,
                                       ![i].seen = @ \cup {n},
                                       ![i].todo = Todo(tasks[i], fs) \ {n},
                                       ![i].unread = FALSE]
          /\ UNCHANGED <<resq, pushed>>
       \/ /\ Todo(tasks[i], fs) = {}
          /\ uiAlive
          /\ resq' = Append(resq, Snapshot(tasks[i], Len(fsHist)))
          /\ pushed' = Append(pushed, Snapshot(tasks[i], Len(fsHist)))
          /\ tasks' = [tasks EXCEPT ![i] = Finish(@)]
       \/ /\ Todo(tasks[i], fs) = {}
          /\ ~uiAlive
          /\ tasks' = [tasks EXCEPT ![i] = Panic(@)]
          /\ UNCHANGED <<resq, pushed>>
    /\ UNCHANGED <<fs, fsHist, cmdq, uiAlive, loop_pc, items, sent, sentAfter,
                   current_path, history, history_index, selected_items,
                   clipboard, ui_pc, overflow_checks, underflow, delivered>>

Metadata(i) ==
    /\ tasks[i].pc = "metadata"
    /\ tasks' = [tasks EXCEPT ![i] = MetadataStep(@, fs)]
    /\ UNCHANGED <<fs, fsHist, cmdq, uiAlive, loop_pc, resq, items, sent,
                   sentAfter, current_path, history, history_index,
                   selected_items, clipboard, ui_pc, overflow_checks,
                   underflow, pushed, delivered>>

----------------------------------------------------------------------------
Next ==
    \/ \E c \in Cmds : Send(c)
    \/ Close
    \/ Update
    \/ LoopRecv
    \/ LoopSleep
    \/ \E i \in 1..Len(tasks) :
          \/ ExecStart(i)
          \/ ExecAct(i)
          \/ ExecLaunch(i)
          \/ ReadDir(i)
          \/ NextEntry(i)
          \/ Metadata(i)

Spec == Init /\ [][Next]_vars

\* The program with its own collaborator: the Commands are those the
\* handlers of FileManager send, from current_path and from what the
\* interface has shown
UiCmds == Cmds \cup {ListDirectory(PathSub), OpenTerminal(DirD)}
UiNext ==
    \/ \E c \in UiCmds : Handle(c)
    \/ Close
    \/ Update
    \/ LoopRecv
    \/ LoopSleep
    \/ \E i \in 1..Len(tasks) :
          \/ ExecStart(i)
          \/ ExecAct(i)
          \/ ExecLaunch(i)
          \/ ReadDir(i)
          \/ NextEntry(i)
          \/ Metadata(i)
UiSpec == Init /\ [][UiNext]_vars

\* The Dispatch Loop alone is scheduled: its thread runs (block_on), while
\* nothing is assumed about the progress of any executor.  The loop never
\* looks at the filesystem; the runs start from the empty directory.
InitEmptyDir == Init /\ fs = EmptyTree
FairLoop ==
    InitEmptyDir /\ [][Next]_vars /\ WF_vars(LoopRecv) /\ WF_vars(LoopSleep)

\* A step of the executor of the i-th Command launched
ExecStep(i) ==
    /\ i \in 1..Len(tasks)
    /\ \/ ExecStart(i)
       \/ ExecAct(i)
       \/ ExecLaunch(i)
       \/ ReadDir(i)
       \/ NextEntry(i)
       \/ Metadata(i)

\* The executors are scheduled: a spawned task is run by a worker thread
\* of the runtime, and none of its calls waits for another task.  Nothing
\* is assumed about the loop or the interface.
FairExec ==
    InitEmptyDir /\ [][Next]_vars /\ \A i \in 1..MaxCmds : WF_vars(ExecStep(i))

----------------------------------------------------------------------------
\* FileManager: the history, the selection and the clipboard

MaxNavCmds == 4
MaxFsChanges == 2

\* usize arithmetic, on a word of UsizeBits bits
UsizeBits == 8
Usize(n) == n % (2 ^ UsizeBits)

\* PathBuf::new(), the empty path: no directory, and it has no parent
Unset == << <<>> >>
HasPathParent(p) == HasParent(p) /\ p # Unset

\* The fields of the FileManager the navigation works on; out collects the
\* Commands a handler sends
FmState ==
    [current_path |-> current_path, history |-> history,
     history_index |-> history_index, selected_items |-> selected_items,
     pc |-> ui_pc, underflow |-> underflow, out |-> <<>>]

\* Vec::truncate(n)
Truncate(h, n) == IF n < Len(h) THEN SubSeq(h, 1, n) ELSE h

\* history.len() - 1 was evaluated: on an empty history it goes below zero
LenMinusOne(st) == [st EXCEPT !.underflow = @ \/ st.history = <<>>]

\* The thread panics: an overflow under overflow checks, or an index out
\* of bounds
UiPanic(st) == [st EXCEPT !.pc = "panicked"]

\* FileManager::navigate_to
navigate_to(st, path, f, checks) ==
    IF ~IsDir(f, path) THEN st
    ELSE LET s1 == [st EXCEPT !.current_path = path,
                              !.out = Append(@, ListDirectory(path)),
                              !.selected_items = {}]
             h == s1.history
         IN IF h # <<>> /\ h[Len(h)] = path THEN s1
            ELSE IF h = <<>> /\ checks THEN UiPanic(LenMinusOne(s1))
            ELSE LET s2 == LenMinusOne(s1)
                     h1 == IF s2.history_index < Usize(Len(h) - 1)
                             THEN Truncate(h, s2.history_index + 1)
                             ELSE h
                     h2 == Append(h1, path)
                 IN [s2 EXCEPT !.history = h2,
                               !.history_index = Usize(Len(h2) - 1)]

\* history[history_index], then navigate_to: the index is on the history,
\* or the thread panics
NavigateToEntry(st, f, checks) ==
    IF st.history_index < Len(st.history)
      THEN navigate_to(st, st.history[st.history_index + 1], f, checks)
      ELSE UiPanic(st)

\* FileManager::go_back
go_back(st, f, checks) ==
    IF st.history_index > 0
      THEN NavigateToEntry([st EXCEPT !.history_index = @ - 1], f, checks)
      ELSE IF HasPathParent(st.current_path)
             THEN navigate_to(st, Parent(st.current_path), f, checks)
             ELSE st

\* FileManager::go_forward
go_forward(st, f, checks) ==
    IF st.history = <<>> /\ checks THEN UiPanic(LenMinusOne(st))
    ELSE LET s1 == LenMinusOne(st)
         IN IF s1.history_index < Usize(Len(s1.history) - 1)
              THEN NavigateToEntry([s1 EXCEPT !.history_index = @ + 1],
                                   f, checks)
              ELSE s1

\* FileManager::new: the history of the configuration, then navigate_to
\* its last entry, or the home directory when it has none
new(cfg, home, f, checks) ==
    LET st == [current_path |-> Unset, history |-> cfg,
               history_index |-> IF cfg = <<>> THEN 0 ELSE Len(cfg) - 1,
               selected_items |-> {}, pc |-> "run", underflow |-> FALSE,
               out |-> <<>>]
    IN navigate_to(st, IF cfg # <<>> THEN cfg[Len(cfg)] ELSE home, f, checks)

\* The history a configuration file holds (none on the first start), the
\* home directory, the paths the interface navigates to, and the paths
\* of the records it lets select
ConfigHistories == {<<>>, <<DirD>>, <<DirD, PathSub>>}
Homes == {DirD, PathB}
NavPaths == {Root, DirD, PathSub}
Selectable == {PathA}

\* The handler ends: its fields are stored and its Commands are in the
\* Command Channel
Install(st) ==
    /\ Len(sent) + Len(st.out) <= MaxNavCmds
    /\ current_path' = st.current_path
    /\ history' = st.history
    /\ history_index' = st.history_index
    /\ selected_items' = st.selected_items
    /\ ui_pc' = st.pc
    /\ underflow' = st.underflow
    /\ cmdq' = cmdq \o [k \in 1..Len(st.out) |->
                           [id |-> Len(sent) + k, cmd |-> st.out[k]]]
    /\ sent' = sent \o st.out
    /\ sentAfter' = sentAfter \o [k \in 1..Len(st.out) |-> Len(delivered)]
    /\ UNCHANGED <<fs, fsHist, uiAlive, loop_pc, tasks, resq, items, pushed,
                   delivered, overflow_checks>>

New ==
    /\ ui_pc = "new"
    /\ \E cfg \in ConfigHistories, home \in Homes :
          Install(new(cfg, home, fs, overflow_checks))
    /\ clipboard' = <<>>

\* navigate_to called by a handler: open_item on a directory, Up, Home,
\* the history menu, a favourite, the path bar, the go-to dialog
NavigateTo(p) ==
    /\ ui_pc = "run"
    /\ Install(navigate_to(FmState, p, fs, overflow_checks))
    /\ UNCHANGED clipboard

GoBack ==
    /\ ui_pc = "run"
    /\ Install(go_back(FmState, fs, overflow_checks))
    /\ UNCHANGED clipboard

GoForward ==
    /\ ui_pc = "run"
    /\ Install(go_forward(FmState, fs, overflow_checks))
    /\ UNCHANGED clipboard

\* A click on a record: its path joins the selection
SelectItem(p) ==
    /\ ui_pc = "run"
    /\ selected_items' = selected_items \cup {p}
    /\ UNCHANGED <<fs, fsHist, cmdq, uiAlive, loop_pc, tasks, resq, items,
                   sent, sentAfter, current_path, history, history_index,
                   clipboard, ui_pc, overflow_checks, underflow, pushed,
                   delivered>>

\* copy_selection and cut_selection: selected_items.iter().next() is any
\* one path of the set
ToClipboard(action) ==
    /\ ui_pc = "run"
    /\ \E item \in selected_items :
          clipboard' = <<[action |-> action, path |-> item]>>
    /\ UNCHANGED <<fs, fsHist, cmdq, uiAlive, loop_pc, tasks, resq, items,
                   sent, sentAfter, current_path, history, history_index,
                   selected_items, ui_pc, overflow_checks, underflow, pushed,
                   delivered>>

CopySelection == ToClipboard("Copy")
CutSelection == ToClipboard("Cut")

\* The Command paste sends for a clipboard item
PasteCmd(item, dir) ==
    IF item.action = "Copy"
      THEN CopyItem(item.path, Join(dir, FileName(item.path)))
      ELSE MoveItem(item.path, Join(dir, FileName(item.path)))

\* Mutant: paste reads the clipboard and leaves the item in it
Paste_KeepClipboard ==
    /\ ui_pc = "run"
    /\ clipboard # <<>>
    /\ Install([FmState EXCEPT
                   !.out = <<PasteCmd(clipboard[1], current_path)>>])
    /\ UNCHANGED clipboard

\* FileManager::paste: clipboard.take(); with None it does nothing
Paste ==
    /\ ui_pc = "run"
    /\ clipboard # <<>>
    /\ Install([FmState EXCEPT
                   !.out = <<PasteCmd(clipboard[1], current_path)>>])
    /\ clipboard' = <<>>

\* A directory the interface knows is removed or created again, by an
\* executor of this program or by another process
DirRemoved(p) ==
    /\ ui_pc = "run"
    /\ Len(fsHist) <= MaxFsChanges
    /\ IsDir(fs, p)
    /\ fs' = RemoveTree(fs, p)
    /\ fsHist' = Append(fsHist, fs')
    /\ UNCHANGED <<cmdq, uiAlive, loop_pc, tasks, resq, items, sent,
                   sentAfter, current_path, history, history_index,
                   selected_items, clipboard, ui_pc, overflow_checks,
                   underflow, pushed, delivered>>

DirCreated(p) ==
    /\ ui_pc = "run"
    /\ Len(fsHist) <= MaxFsChanges
    /\ CreateDirOk(fs, p)
    /\ fs' = CreateDir(fs, p)
    /\ fsHist' = Append(fsHist, fs')
    /\ UNCHANGED <<cmdq, uiAlive, loop_pc, tasks, resq, items, sent,
                   sentAfter, current_path, history, history_index,
                   selected_items, clipboard, ui_pc, overflow_checks,
                   underflow, pushed, delivered>>

\* The process starts: FileManager::new has not run yet
NavInit ==
    /\ InitEngine
    /\ current_path = Unset
    /\ history = <<>>
    /\ history_index = 0
    /\ selected_items = {}
    /\ clipboard = <<>>
    /\ ui_pc = "new"
    /\ overflow_checks \in BOOLEAN
    /\ underflow = FALSE

NavNext ==
    \/ New
    \/ \E p \in NavPaths : NavigateTo(p)
    \/ GoBack
    \/ GoForward
    \/ \E p \in Selectable : SelectItem(p)
    \/ CopySelection
    \/ CutSelection
    \/ Paste
    \/ DirRemoved(DirD)
    \/ DirCreated(DirD)

NavSpec == NavInit /\ [][NavNext]_vars

----------------------------------------------------------------------------
\* Properties

Mutating == {"CreateFile", "CreateFolder", "DeleteItem", "RenameItem",
             "CopyItem", "MoveItem"}
GuardedKinds == {"CreateFile", "CreateFolder", "RenameItem", "MoveItem"}

TaskIds == 1..Len(tasks)
PushesOf(id) == {k \in 1..Len(pushed) : pushed[k].task = id}

\* The executor has called list_directory or is about to
Relisting(t) == t.listed \/ t.pc \in {"read_dir", "next_entry", "metadata"}

\* C1 as stated: for every mutating Command kind, an executor whose side
\* effect failed performs no re-listing and pushes nothing onto the Result
\* Channel.
C1_NoRelistAfterFailure ==
    \A i \in TaskIds :
        (tasks[i].cmd.kind \in Mutating /\ tasks[i].effect = "failed")
            => ~Relisting(tasks[i]) /\ PushesOf(tasks[i].id) = {}

\* C1 (amended): for CreateFile, CreateFolder, Rename and Move, an executor
\* whose side effect failed performs no re-listing and pushes nothing; the
\* Delete and Copy executors discard the result of their side effect and
\* re-list the parent of their target also when it failed.
C1_NoRelistAfterFailureGuarded ==
    \A i \in TaskIds :
        tasks[i].effect = "failed" =>
            IF tasks[i].cmd.kind \in GuardedKinds
              THEN ~Relisting(tasks[i]) /\ PushesOf(tasks[i].id) = {}
              ELSE /\ tasks[i].cmd.kind \in {"DeleteItem", "CopyItem"}
                   /\ HasParent(RelistTarget(tasks[i].cmd))
                        => Relisting(tasks[i])

\* A Rename whose side effect failed has ended silently, and a Delete whose
\* side effect failed has pushed a snapshot
C1_Witness ==
    \E i, j \in TaskIds :
        /\ tasks[i].cmd.kind = "RenameItem" /\ tasks[i].effect = "failed"
        /\ tasks[i].pc = "done"
        /\ tasks[j].cmd.kind = "DeleteItem" /\ tasks[j].effect = "failed"
        /\ PushesOf(tasks[j].id) # {}

\* The directory the policy table of the specification names
PolicyDir(cmd) ==
    CASE cmd.kind = "ListDirectory" -> cmd.p
      [] cmd.kind \in {"CreateFile", "CreateFolder", "DeleteItem"} ->
            Parent(cmd.p)
      [] cmd.kind \in {"RenameItem", "CopyItem", "MoveItem"} -> Parent(cmd.q)

\* C2: an executor pushes at most one snapshot, exactly one when its side
\* effect and the listing after it succeeded; every snapshot pushed is a
\* listing of the directory the policy table names for its Command (every
\* Item Record in it is an immediate entry of that directory).
C2_OneSnapshotOfPolicyDir ==
    /\ \A k \in 1..Len(pushed) :
          /\ pushed[k].dir = PolicyDir(sent[pushed[k].task])
          /\ \A n \in 1..Len(pushed[k].items) :
                /\ HasParent(pushed[k].items[n].path)
                /\ Parent(pushed[k].items[n].path)
                      = PolicyDir(sent[pushed[k].task])
    /\ \A i \in TaskIds :
          /\ Cardinality(PushesOf(tasks[i].id)) <= 1
          /\ (/\ tasks[i].pc = "done"
              /\ tasks[i].effect # "failed"
              /\ tasks[i].listed
              /\ tasks[i].err = "none")
                => Cardinality(PushesOf(tasks[i].id)) = 1

\* A Move into another directory has pushed a non-empty listing of the
\* parent of its destination
C2_Witness ==
    \E k \in 1..Len(pushed) :
        /\ sent[pushed[k].task].kind = "MoveItem"
        /\ Parent(sent[pushed[k].task].p) # Parent(sent[pushed[k].task].q)
        /\ pushed[k].items # <<>>
        /\ tasks[pushed[k].task].effect = "ok"

\* C3: executors are launched in the order in which their Commands were
\* enqueued: the i-th executor launched runs the i-th Command sent.
C3_LaunchOrder ==
    \A i \in TaskIds : tasks[i].id = i /\ tasks[i].cmd = sent[i]

\* Two different Commands have been launched
C3_Witness == Len(tasks) = 2 /\ sent[1] # sent[2]

\* C4: every Command sent is, at any time, either still in the Command
\* Channel or launched, never both and never more than once.
C4_ExactlyOnce ==
    \A id \in 1..Len(sent) :
        Cardinality({i \in TaskIds : tasks[i].id = id})
          + Cardinality({n \in 1..Len(cmdq) : cmdq[n].id = id}) = 1

\* Both Commands sent have been dequeued and launched
C4_Witness == Len(sent) = 2 /\ Len(tasks) = 2 /\ cmdq = <<>>

\* C5: the Dispatch Loop never waits for an executor: as long as the loop
\* itself runs, the k-th Command sent is launched, whether or not the
\* executors launched before it ever take another step.
C5_LoopNeverWaits ==
    \A k \in 1..MaxCmds : (Len(sent) >= k) ~> (Len(tasks) >= k)

\* The second Command has been launched while the executor of the first has
\* not taken its first step
C5_Witness ==
    /\ Len(tasks) = 2
    /\ tasks[1].pc = "start"
    /\ tasks[2].pc # "start"

\* The filesystem states between two points of the history
Instants(from, to) == from..to

\* C6 as stated: every snapshot pushed equals what the listed directory
\* contained at one single instant of its executor's run.
C6_SnapshotOfOneInstant ==
    \A k \in 1..Len(pushed) :
        \E j \in Instants(pushed[k].since, pushed[k].at) :
            Range(pushed[k].items) = Listing(fsHist[j], pushed[k].dir)

\* C6 (amended): every Item Record of a snapshot describes an entry as the
\* listed directory held it at some instant between the opening of the
\* directory and the push (the records of one snapshot may come from
\* different instants); a snapshot equals the content of the directory when
\* the filesystem did not change between the opening and the push.
C6_RecordsOfTheRun ==
    \A k \in 1..Len(pushed) :
        /\ \A n \in 1..Len(pushed[k].items) :
              \E j \in Instants(pushed[k].opened, pushed[k].at) :
                  pushed[k].items[n] \in Listing(fsHist[j], pushed[k].dir)
        /\ pushed[k].opened = pushed[k].at
              => Range(pushed[k].items)
                    = Listing(fsHist[pushed[k].at], pushed[k].dir)

\* A snapshot that mixes two instants: it matches no state the directory
\* was in during the run
C6_Witness ==
    \E k \in 1..Len(pushed) :
        /\ pushed[k].opened < pushed[k].at
        /\ \A j \in Instants(pushed[k].since, pushed[k].at) :
              Range(pushed[k].items) # Listing(fsHist[j], pushed[k].dir)

\* C7: a listing in which read_dir or the metadata of an entry failed
\* pushes nothing (no partial snapshot), and a snapshot pushed by a listing
\* during which the filesystem did not change holds exactly one record for
\* every immediate entry of the directory.
C7_AllOrNothing ==
    /\ \A i \in TaskIds :
          tasks[i].err # "none" => PushesOf(tasks[i].id) = {}
    /\ \A k \in 1..Len(pushed) :
          pushed[k].opened = pushed[k].at =>
              \A p \in Children(fsHist[pushed[k].at], pushed[k].dir) :
                  Cardinality({n \in 1..Len(pushed[k].items) :
                                  pushed[k].items[n].path = p}) = 1

\* The metadata of an entry could not be read after other entries had been
\* read, and the executor ended without a push
C7_Witness ==
    \E i \in TaskIds :
        /\ tasks[i].err = "metadata"
        /\ tasks[i].pc = "done"
        /\ PushesOf(tasks[i].id) = {}
        /\ Cardinality(Children(fsHist[tasks[i].since], tasks[i].dir)) > 1

\* C8: a refresh that receives a snapshot makes the working set exactly
\* that snapshot; while the Result Channel is empty no step changes the
\* working set; a refresh is possible whatever the channel holds.
C8_UpdateReplaces ==
    /\ [][(delivered' # delivered => items' = Head(resq).items)
            /\ (resq = <<>> => items' = items)]_vars
    /\ [](uiAlive => ENABLED Update)

\* A second snapshot has replaced a different, non-empty first one
C8_Witness ==
    /\ Len(delivered) = 2
    /\ delivered[1].items # <<>>
    /\ delivered[2].items # delivered[1].items
    /\ Range(delivered[1].items) \cap Range(delivered[2].items) = {}
    /\ items = delivered[2].items

\* C9: the snapshots received are the snapshots pushed, in push order and
\* without a gap; while the consumer lives the others are still queued; a
\* refresh receives at most one; the working set is the last one received.
C9_DeliveredInOrder ==
    /\ [](/\ Len(delivered) <= Len(pushed)
          /\ delivered = SubSeq(pushed, 1, Len(delivered))
          /\ uiAlive => delivered \o resq = pushed
          /\ delivered # <<>> => items = delivered[Len(delivered)].items)
    /\ [][Len(delivered') <= Len(delivered) + 1]_vars

\* Two snapshots were queued together and both were received, one refresh
\* after the other
C9_Witness ==
    /\ Len(delivered) = 2
    /\ delivered[1].at <= delivered[2].at
    /\ delivered[1].items # delivered[2].items
    /\ resq = <<>>

\* Delete(d/a) and then List(d) were sent, in that order, with a in d
C10_Scenario ==
    /\ Len(sent) = 2
    /\ sent[1] = DeleteItem(PathA)
    /\ sent[2] = ListDirectory(DirD)
    /\ Exists(fsHist[1], PathA)

\* C10: with Delete(d/a) and then List(d) sent in that order, nothing
\* orders the two executors: while the Delete executor has not yet removed
\* a, the loop can still dequeue and launch List, the List executor can take
\* each of its steps, and so can the Delete executor; so List's snapshot may
\* be taken before or after the removal.
C10_RaceIsOpen ==
    (C10_Scenario /\ Len(tasks) >= 1 /\ tasks[1].pc \in {"start", "act"}) =>
        /\ ENABLED (ExecStart(1) \/ ExecAct(1))
        /\ (loop_pc = "try_recv" /\ cmdq # <<>>) => ENABLED LoopRecv
        /\ loop_pc = "sleep" => ENABLED LoopSleep
        /\ (Len(tasks) = 2 /\ tasks[2].pc \notin {"done", "panicked"}) =>
              ENABLED (ExecStart(2) \/ ReadDir(2) \/ NextEntry(2)
                          \/ Metadata(2))

\* Pre-delete outcome: the Delete has removed a, and the snapshot List(d)
\* pushed after that still holds a
C10_Witness ==
    /\ C10_Scenario
    /\ Len(tasks) = 2 /\ tasks[1].effect = "ok"
    /\ \E k \in 1..Len(pushed) :
          /\ pushed[k].task = 2
          /\ pushed[k].at > 1
          /\ \E n \in 1..Len(pushed[k].items) :
                pushed[k].items[n].path = PathA

\* Post-delete outcome: the snapshot List(d) pushed does not hold a
C10_WitnessPostDelete ==
    /\ C10_Scenario
    /\ \E k \in 1..Len(pushed) :
          /\ pushed[k].task = 2
          /\ \A n \in 1..Len(pushed[k].items) :
                pushed[k].items[n].path # PathA

----------------------------------------------------------------------------
\* One Command run alone, from its first step to the start of its
\* re-listing: the arm of `match event` with no other executor in between
Sequential(cmd, f) ==
    LET t == NewTask([id |-> 0, cmd |-> cmd], 0)
    IN IF cmd.kind \in {"OpenFile", "OpenTerminal", "NewWindow"}
         THEN Res(Finish(t), f, {})
         ELSE LET r == StartArm(t, f)
              IN IF r.task.pc = "act" THEN ActArm(r.task, r.fs) ELSE r

\* The filesystem after Commands 1..k have run one after the other
RECURSIVE After(_)
After(k) == IF k = 0 THEN fsHist[1] ELSE Sequential(sent[k], After(k - 1)).fs

\* Command k, run after Commands 1..k-1, succeeds: its side effect does
\* and the directory it lists can be opened
Succeeds(k) ==
    LET r == Sequential(sent[k], After(k - 1))
    IN /\ r.task.pc = "read_dir"
       /\ r.task.effect # "failed"
       /\ IsDir(r.fs, r.task.dir)

\* Every Command but the first was sent after update() had received the
\* snapshot of the Command before it
Serialized ==
    \A j \in 2..Len(sent) :
        \E n \in 1..sentAfter[j] : delivered[n].task = j - 1

\* C11: when each Command is sent only after the snapshot of the previous
\* one was received, and Commands 1..k all succeed, the n-th snapshot pushed
\* and received is that of Command n, and the snapshot of Command k is
\* exactly the content its directory has after Commands 1..k ran one after
\* the other, one record per entry.
C11_SerializedIssuance ==
    \A k \in 1..Len(sent) :
        (Serialized /\ \A j \in 1..k : Succeeds(j)) =>
            \A n \in 1..Len(pushed) :
                pushed[n].task <= k =>
                    /\ pushed[n].task = n
                    /\ n <= Len(delivered) => delivered[n].task = n
                    /\ pushed[n].dir = PolicyDir(sent[n])
                    /\ Range(pushed[n].items)
                          = Listing(After(n), pushed[n].dir)
                    /\ Len(pushed[n].items)
                          = Cardinality(Listing(After(n), pushed[n].dir))

\* Two mutating Commands, the second sent after the snapshot of the first
\* was received; both succeeded, both changed the filesystem, and both
\* snapshots were received
C11_Witness ==
    /\ Len(sent) = 2 /\ Serialized
    /\ Succeeds(1) /\ Succeeds(2)
    /\ sent[1].kind \in Mutating /\ sent[2].kind \in Mutating
    /\ After(1) # After(0) /\ After(2) # After(1)
    /\ Len(delivered) = 2
    /\ delivered[2].items # <<>>

\* C12: once the FileManager, the only producer of the Command Channel, has
\* been dropped, the Dispatch Loop (as long as it is scheduled) reaches its
\* break, after launching the Commands still queued; once ended it stays
\* ended.
C12_LoopTerminates ==
    /\ (~uiAlive) ~> (loop_pc = "break")
    /\ [][loop_pc = "break" => loop_pc' = "break"]_vars

\* The loop has ended after launching both Commands
C12_Witness ==
    /\ loop_pc = "break"
    /\ ~uiAlive
    /\ Len(sent) = 2 /\ Len(tasks) = 2

\* C13: a step launches at most one executor, and only the loop's try_recv
\* does; the step that launches goes to the sleep; the try_recv is left
\* only for the sleep or the break, and the sleep only for the next
\* try_recv, which launches nothing.  So two launches are always separated
\* by a sleep.
C13_OneDequeuePerTick ==
    [][/\ Len(tasks') <= Len(tasks) + 1
       /\ Len(tasks') >= Len(tasks)
       /\ Len(tasks') > Len(tasks) =>
             /\ loop_pc = "try_recv" /\ loop_pc' = "sleep"
             /\ cmdq # <<>> /\ cmdq' = Tail(cmdq)
             /\ tasks'[Len(tasks')].cmd = Head(cmdq).cmd
       /\ (loop_pc = "try_recv" /\ loop_pc' # "try_recv") =>
             loop_pc' \in {"sleep", "break"}
       /\ (loop_pc = "sleep" /\ loop_pc' # "sleep") =>
             /\ loop_pc' = "try_recv"
             /\ Len(tasks') = Len(tasks) /\ cmdq' = cmdq]_vars

\* The loop sleeps after launching the first Command while the second,
\* sent before that launch, waits in the channel for the next tick
C13_Witness ==
    /\ loop_pc = "sleep"
    /\ Len(tasks) = 1 /\ tasks[1].pc = "start"
    /\ Len(cmdq) = 1
    /\ sentAfter = <<0, 0>>

\* An executor has been aborted by a panic
Aborted == \E i \in TaskIds : tasks[i].pc = "panicked"

\* C14: the loop ends only on a disconnected, empty Command Channel; after
\* the panic of an executor (a failed launch, or a send on the Result
\* Channel whose receiver is gone) the loop can still take its step, every
\* executor still running can still take its step, and (the loop being
\* scheduled) every Command sent is still launched.
C14_FailureConfined ==
    /\ [](loop_pc = "break" => (~uiAlive /\ cmdq = <<>>))
    /\ [](Aborted =>
            /\ loop_pc = "try_recv" => ENABLED LoopRecv
            /\ loop_pc = "sleep" => ENABLED LoopSleep
            /\ \A j \in TaskIds :
                  tasks[j].pc \notin {"done", "panicked"} =>
                      ENABLED (ExecStart(j) \/ ExecAct(j) \/ ExecLaunch(j)
                                 \/ ReadDir(j) \/ NextEntry(j)
                                 \/ Metadata(j)))
    /\ \A k \in 1..MaxCmds :
          (Aborted /\ Len(sent) >= k) ~> (Len(tasks) >= k)

\* The terminal launch of the first Command panicked; the second Command
\* was launched, and its executor listed the directory and pushed
C14_Witness ==
    /\ Len(tasks) = 2
    /\ tasks[1].cmd.kind = "OpenTerminal" /\ tasks[1].pc = "panicked"
    /\ tasks[2].pc = "done"
    /\ PushesOf(2) # {}
    /\ uiAlive

\* C15: in every snapshot pushed onto the Result Channel, every Item Record
\* with is_dir = TRUE has size 0 (whatever length the filesystem reports
\* for the directory), and every record of a file has the file's length.
C15_DirectorySizeZero ==
    \A k \in 1..Len(pushed) :
        \A n \in 1..Len(pushed[k].items) :
            LET item == pushed[k].items[n]
            IN /\ item.is_dir => item.size = 0
               /\ ~item.is_dir =>
                     \E j \in Instants(pushed[k].opened, pushed[k].at) :
                         /\ IsFile(fsHist[j], item.path)
                         /\ item.size = fsHist[j][item.path].len

\* A snapshot holds the record of a directory for which the filesystem
\* reports a length that is not 0, next to the record of a non-empty file
C15_Witness ==
    \E k \in 1..Len(pushed) :
        \E n, m \in 1..Len(pushed[k].items) :
            /\ pushed[k].items[n].is_dir
            /\ IsDir(fsHist[pushed[k].at], pushed[k].items[n].path)
            /\ fsHist[pushed[k].at][pushed[k].items[n].path].len > 0
            /\ ~pushed[k].items[m].is_dir
            /\ pushed[k].items[m].size > 0

----------------------------------------------------------------------------
\* The effect of single Commands

\* The snapshots the executor of Command k has pushed
SnapshotsOf(k) == {pushed[n] : n \in PushesOf(k)}

\* The executor of Command k has ended normally after a listing that was
\* sent
Completed(k) ==
    /\ k <= Len(tasks)
    /\ tasks[k].pc = "done"
    /\ Cardinality(PushesOf(k)) = 1

\* The executor i takes the step that performs its side effect
ActsIn(i, kind) ==
    /\ tasks[i].cmd.kind = kind
    /\ tasks[i].effect = "none"
    /\ tasks'[i].effect # "none"

\* C17: the step in which a Delete(p) executor removes p takes p and all
\* its descendants out of the filesystem and leaves every other path with
\* its metadata; a Delete whose removal fails changes nothing.  With d
\* holding exactly {a, sub} and Delete(d/sub) run with no other executor
\* beside it, the snapshot it pushes is of d and holds exactly the record of
\* a, as a was.
C17_DeleteRemovesExactly ==
    /\ [][\A i \in TaskIds :
            ActsIn(i, "DeleteItem") =>
                IF tasks'[i].effect = "ok"
                  THEN /\ DOMAIN fs' = DOMAIN fs \ Subtree(fs, tasks[i].cmd.p)
                       /\ tasks[i].cmd.p \in DOMAIN fs
                       /\ \A q \in DOMAIN fs' : fs'[q] = fs[q]
                  ELSE fs' = fs]_vars
    /\ [](\A k \in 1..Len(sent) :
            (/\ Serialized
             /\ sent[k] = DeleteItem(PathSub)
             /\ Children(After(k - 1), DirD) = {PathA, PathSub}) =>
                /\ \A snap \in SnapshotsOf(k) :
                      /\ snap.dir = DirD
                      /\ snap.items = <<ItemOf(After(k - 1), PathA)>>
                /\ (k <= Len(tasks) /\ tasks[k].pc = "done") =>
                      /\ Completed(k)
                      /\ tasks[k].effect = "ok")

\* Delete(d/sub) alone, with d holding a and the non-empty directory sub:
\* sub and sub/x are gone, a is still there, and the snapshot holds only a
C17_Witness ==
    /\ sent = <<DeleteItem(PathSub)>>
    /\ fsHist[1] = FullTree
    /\ Completed(1)
    /\ DOMAIN fs = DOMAIN FullTree \ {PathSub, PathSubX}
    /\ pushed[1].items = <<ItemOf(FullTree, PathA)>>

\* C18: with d empty and CreateFile(d/a) the only Command sent, every
\* snapshot pushed is of d and holds exactly one Item Record, with path
\* d/a, is_dir = FALSE and size = 0; the executor ends with that snapshot
\* sent.
C18_CreateThenList ==
    (/\ sent = <<CreateFile(PathA)>>
     /\ Children(fsHist[1], DirD) = {}) =>
        /\ \A k \in 1..Len(pushed) :
              /\ pushed[k].dir = DirD
              /\ pushed[k].items =
                    <<[path |-> PathA, is_dir |-> FALSE, size |-> 0,
                       is_hidden |-> FALSE]>>
        /\ (Len(tasks) = 1 /\ tasks[1].pc = "done") =>
              /\ Completed(1)
              /\ tasks[1].effect = "ok"

\* CreateFile(d/a) was the only Command, d was empty, and the snapshot was
\* received
C18_Witness ==
    /\ sent = <<CreateFile(PathA)>>
    /\ fsHist[1] = EmptyTree
    /\ Completed(1)
    /\ Len(delivered) = 1
    /\ Len(items) = 1 /\ items[1].path = PathA /\ items[1].size = 0

\* C19: CreateFolder(d/sub) run with no other executor beside it, d
\* existing and d/sub absent, succeeds, and the snapshot it pushes is of d
\* and holds the record of d/sub with is_dir = TRUE and size = 0 together
\* with exactly the records d had before.
C19_CreateFolderListed ==
    \A k \in 1..Len(sent) :
        (/\ Serialized
         /\ sent[k] = CreateFolder(PathSub)
         /\ IsDir(After(k - 1), DirD)
         /\ ~Exists(After(k - 1), PathSub)) =>
            /\ \A snap \in SnapshotsOf(k) :
                  /\ snap.dir = DirD
                  /\ Range(snap.items) =
                        Listing(After(k - 1), DirD)
                          \cup {[path |-> PathSub, is_dir |-> TRUE,
                                 size |-> 0, is_hidden |-> FALSE]}
                  /\ Len(snap.items)
                        = Cardinality(Children(After(k - 1), DirD)) + 1
            /\ (k <= Len(tasks) /\ tasks[k].pc = "done") =>
                  /\ Completed(k)
                  /\ tasks[k].effect = "ok"

\* Delete(d/sub), then CreateFolder(d/sub) sent after the snapshot of the
\* Delete was received: the snapshot holds a, which d had before, and the
\* new directory sub
C19_Witness ==
    /\ sent = <<DeleteItem(PathSub), CreateFolder(PathSub)>>
    /\ fsHist[1] = FullTree
    /\ Serialized
    /\ Completed(2)
    /\ \E snap \in SnapshotsOf(2) :
          Range(snap.items) = {ItemOf(FullTree, PathA),
                               [path |-> PathSub, is_dir |-> TRUE,
                                size |-> 0, is_hidden |-> FALSE]}

\* C20: Rename(d/a, d/b) run with no other executor beside it, when it
\* succeeds, pushes a snapshot of d in which b has the size and the
\* file/directory classification a had before, a is absent, and every other
\* entry of d has the record it had before.
C20_RenameListed ==
    \A k \in 1..Len(sent) :
        (/\ Serialized
         /\ sent[k] = RenameItem(PathA, PathB)
         /\ RenameOk(After(k - 1), PathA, PathB)) =>
            /\ \A snap \in SnapshotsOf(k) :
                  LET before == Listing(After(k - 1), DirD)
                      a == ItemOf(After(k - 1), PathA)
                      others == {r \in before : r.path \notin {PathA, PathB}}
                  IN /\ snap.dir = DirD
                     /\ Range(snap.items) =
                           others \cup {[a EXCEPT !.path = PathB]}
                     /\ Len(snap.items) = Cardinality(others) + 1
            /\ (k <= Len(tasks) /\ tasks[k].pc = "done") =>
                  /\ Completed(k)
                  /\ tasks[k].effect = "ok"

\* Rename(d/a, d/b) alone, with d holding the file a of length 1 and sub:
\* the snapshot holds b with size 1 and sub, and not a
C20_Witness ==
    /\ sent = <<RenameItem(PathA, PathB)>>
    /\ fsHist[1] = FullTree
    /\ Completed(1)
    /\ Range(pushed[1].items) =
          {[path |-> PathB, is_dir |-> FALSE, size |-> 1,
            is_hidden |-> FALSE],
           ItemOf(FullTree, PathSub)}

\* C21 as stated: the step in which a Copy(from, to) executor copies the
\* non-empty directory `from`, when the copy succeeds, leaves under `to` an
\* entry for every entry of the tree of `from`, of the same kind and the same
\* length, and leaves every entry of the tree of `from` as it was.
C21_CopyDuplicatesTree ==
    [][\A i \in TaskIds :
          LET from == tasks[i].cmd.p
              to == tasks[i].cmd.q
          IN (/\ ActsIn(i, "CopyItem")
              /\ tasks[i].is_dir
              /\ IsDir(fs, from) /\ Children(fs, from) # {}
              /\ tasks'[i].effect = "ok") =>
                 \A q \in Subtree(fs, from) :
                     /\ Exists(fs', Rebase(q, from, to))
                     /\ fs'[Rebase(q, from, to)].is_dir = fs[q].is_dir
                     /\ fs'[Rebase(q, from, to)].len = fs[q].len
                     /\ Exists(fs', q)
                     /\ fs'[q] = fs[q]]_vars

\* The directory d/sub was copied and pasted into d, the directory it is
\* in: Copy(d/sub, d/sub) succeeded and the file d/sub/x, of length 1
\* before, is empty
C21_Witness ==
    /\ sent = <<CopyItem(PathSub, PathSub)>>
    /\ fsHist[1] = FullTree
    /\ Completed(1)
    /\ tasks[1].effect = "ok"
    /\ fsHist[1][PathSubX].len = 1
    /\ fs[PathSubX].len = 0

\* C22: when List(d) is sent twice and nothing else is, so that nothing
\* modifies d, every snapshot pushed holds the same set of Item Records,
\* the content of d, one record per entry; the two snapshots may order the
\* records differently.
C22_ListIdempotent ==
    sent = <<ListDirectory(DirD), ListDirectory(DirD)>> =>
        /\ \A k \in 1..Len(pushed) :
              /\ Range(pushed[k].items) = Listing(fsHist[1], DirD)
              /\ Len(pushed[k].items) = Cardinality(Listing(fsHist[1], DirD))
        /\ \A k, n \in 1..Len(pushed) :
              Range(pushed[k].items) = Range(pushed[n].items)
        /\ \A i \in TaskIds : tasks[i].pc = "done" => Completed(i)

\* The two List(d) have pushed the same two records in different orders
C22_Witness ==
    /\ sent = <<ListDirectory(DirD), ListDirectory(DirD)>>
    /\ Len(pushed) = 2
    /\ pushed[1].task # pushed[2].task
    /\ Len(pushed[1].items) = 2
    /\ pushed[1].items # pushed[2].items
    /\ Range(pushed[1].items) = Range(pushed[2].items)

\* C23: in every snapshot pushed, the is_hidden of an Item Record is TRUE
\* exactly when the last component of its path begins with a period.
C23_HiddenIffLeadingDot ==
    \A k \in 1..Len(pushed) :
        \A n \in 1..Len(pushed[k].items) :
            LET name == FileName(pushed[k].items[n].path)
            IN pushed[k].items[n].is_hidden <=> Head(name) = "."

\* A snapshot holds the record of .x with is_hidden = TRUE next to a record
\* with is_hidden = FALSE
C23_Witness ==
    \E k \in 1..Len(pushed) :
        \E n, m \in 1..Len(pushed[k].items) :
            /\ pushed[k].items[n].path = PathSubX
            /\ pushed[k].items[n].is_hidden
            /\ ~pushed[k].items[m].is_hidden

LaunchKinds == {"OpenFile", "OpenTerminal", "NewWindow"}

\* C24: the executor of an OpenFile, OpenTerminal or NewWindow Command never
\* lists a directory and never pushes a snapshot, and the step it takes,
\* whether the launch succeeds or the executor panics, leaves the
\* filesystem and the Result Channel as they were.
C24_LaunchTouchesNothing ==
    /\ [](\A i \in TaskIds :
             tasks[i].cmd.kind \in LaunchKinds =>
                 /\ PushesOf(tasks[i].id) = {}
                 /\ ~Relisting(tasks[i])
                 /\ tasks[i].pc \in {"start", "done", "panicked"})
    /\ [][\A i \in TaskIds :
             (tasks[i].cmd.kind \in LaunchKinds /\ tasks'[i] # tasks[i]) =>
                 /\ fs' = fs
                 /\ pushed' = pushed
                 /\ resq' = resq]_vars

\* A file was opened and a terminal launch panicked, in a directory that
\* holds entries, and nothing was pushed
C24_Witness ==
    /\ Len(tasks) = 2
    /\ tasks[1].cmd.kind = "OpenFile" /\ tasks[1].pc = "done"
    /\ tasks[2].cmd.kind = "OpenTerminal" /\ tasks[2].pc = "panicked"
    /\ pushed = <<>>
    /\ fs = FullTree

\* C25 as stated: the executor of OpenTerminal(p) launches the terminal with
\* working directory p when p is a directory and with the parent of p when
\* p is not one: whenever the directory so chosen exists, the executor can
\* launch the terminal in it.
C25_TerminalInPathOrParent ==
    \A i \in TaskIds :
        LET p == tasks[i].cmd.p
        IN (/\ tasks[i].cmd.kind = "OpenTerminal"
            /\ tasks[i].pc = "start"
            /\ IsDir(fs, TerminalPath(fs, p))) =>
               ENABLED (/\ ExecLaunch(i)
                        /\ tasks'[i].pc = "done"
                        /\ tasks'[i].cwd = TerminalPath(fs, p))

\* C25 (amended): the executor of OpenTerminal(p) launches the terminal with
\* working directory p, the path as it was sent, and only if p is a
\* directory when the executor runs; if p is not a directory then, nothing
\* is launched and the executor panics.  (The parent is taken by
\* FileManager::open_in_terminal, when the Command is sent: TerminalPath in
\* CanSend.)
C25_TerminalInPathAsSent ==
    [][\A i \in TaskIds :
          LET p == tasks[i].cmd.p
          IN (/\ tasks[i].cmd.kind = "OpenTerminal"
              /\ tasks[i].pc = "start"
              /\ tasks'[i].pc # "start") =>
                 IF IsDir(fs, p)
                   THEN tasks'[i].pc = "done" => tasks'[i].cwd = p
                   ELSE /\ tasks'[i].pc = "panicked"
                        /\ tasks'[i].cwd = Root]_vars

\* d/sub was deleted before the executor of OpenTerminal(d/sub) was even
\* launched; d is still a directory, and the executor has panicked without
\* launching anything
C25_Witness ==
    /\ sent = <<DeleteItem(PathSub), OpenTerminal(PathSub)>>
    /\ fsHist[1] = FullTree
    /\ Len(tasks) = 2
    /\ tasks[2].since = 2
    /\ ~Exists(fsHist[2], PathSub)
    /\ IsDir(fs, DirD)
    /\ tasks[2].pc = "panicked"
    /\ tasks[2].cwd = Root

Running(t) == t.pc \notin {"done", "panicked"}

Quiescent ==
    /\ uiAlive
    /\ cmdq = <<>>
    /\ Len(tasks) = Len(sent)
    /\ \A i \in TaskIds : ~Running(tasks[i])
    /\ resq = <<>>

\* The directory the snapshot in items was listed from
ItemsDir == delivered[Len(delivered)].dir

\* C27: at quiescence the consumer's items equal the actual current content
\* of the directory they list.
C27_ItemsCurrentAtQuiescence ==
    (Quiescent /\ delivered # <<>>) => Range(items) = Listing(fs, ItemsDir)

\* Two files were created in d, one Command right after the other.  Both
\* snapshots are exact listings of d, each at its instant; the one listed
\* last was received first, and items holds the older one for good: d
\* holds d/sub, items does not
C27_Witness ==
    /\ Quiescent
    /\ sent = <<CreateFile(PathA), CreateFolder(PathSub)>>
    /\ fsHist[1] = EmptyTree
    /\ Len(delivered) = 2
    /\ delivered[1].dir = DirD /\ delivered[2].dir = DirD
    /\ Range(delivered[1].items) = Listing(fs, DirD)
    /\ Range(items) = Listing(fsHist[2], DirD)
    /\ Range(items) # Listing(fs, DirD)

\* C28: at quiescence every Item Record of the consumer's items is an
\* immediate entry of current_path.
C28_ItemsOfCurrentPath ==
    Quiescent =>
        \A n \in 1..Len(items) :
            /\ HasParent(items[n].path)
            /\ Parent(items[n].path) = current_path

\* The user created d/a and then went into d/sub.  The listing of d/sub
\* was received first and the re-listing of d, made for the creation,
\* last: the interface is in d/sub and shows the content of d
C28_Witness ==
    /\ Quiescent
    /\ sent = <<CreateFile(PathA), ListDirectory(PathSub)>>
    /\ fsHist[1] = FullTree
    /\ current_path = PathSub
    /\ Len(delivered) = 2
    /\ delivered[1].dir = PathSub
    /\ ItemsDir = DirD
    /\ Range(items) = Listing(fs, DirD)
    /\ \E n \in 1..Len(items) : items[n].path = PathA

\* C29: the loop exits only from a try_recv that finds the Command Channel
\* empty with its sender gone; when it has exited, every Command ever sent
\* has been dequeued and its executor launched, in the order of sending.
C29_ExitOnlyDrainedAndClosed ==
    /\ [](loop_pc = "break" =>
            /\ ~uiAlive
            /\ cmdq = <<>>
            /\ Len(tasks) = Len(sent)
            /\ \A k \in 1..Len(sent) : tasks[k].cmd = sent[k])
    /\ [][(loop_pc # "break" /\ loop_pc' = "break") =>
            /\ loop_pc = "try_recv"
            /\ ~uiAlive
            /\ cmdq = <<>>
            /\ UNCHANGED <<cmdq, tasks>>]_vars

\* The loop has exited; both Commands sent were launched before, and
\* neither executor has run yet
C29_Witness ==
    /\ loop_pc = "break"
    /\ Len(sent) = 2
    /\ Len(tasks) = 2
    /\ tasks[1].cmd = sent[1] /\ tasks[2].cmd = sent[2]
    /\ tasks[1].pc = "start" /\ tasks[2].pc = "start"

\* C30: CreateFile(p) when a file already exists at p leaves that file's
\* size and content unchanged: the step of the CreateFile arm leaves the
\* entry of an existing file as it was.
C30_CreateFileKeepsExisting ==
    [][\A i \in TaskIds :
          LET p == tasks[i].cmd.p
          IN (/\ tasks[i].cmd.kind = "CreateFile"
              /\ tasks[i].pc = "start"
              /\ tasks'[i].pc # "start"
              /\ IsFile(fs, p)) =>
                 /\ IsFile(fs', p)
                 /\ fs'[p].len = fs[p].len]_vars

\* d/a held one unit of content; the single Command CreateFile(d/a) has
\* succeeded and was answered by a snapshot, and d/a is empty
C30_Witness ==
    /\ sent = <<CreateFile(PathA)>>
    /\ fsHist[1] = FullTree
    /\ fsHist[1][PathA].len = 1
    /\ Completed(1)
    /\ tasks[1].effect = "ok"
    /\ fs[PathA].len = 0

\* C31: FileManager::new, navigate_to and go_forward never evaluate
\* history.len() - 1 on an empty history: no usize subtraction goes below
\* zero in any reachable state.
C31_NoUsizeUnderflow == ~underflow

\* The first start, with no configuration file and the home directory d:
\* FileManager::new called navigate_to(d) on the empty history, the
\* ListDirectory was sent, and the subtraction panicked under overflow
\* checks
C31_Witness ==
    /\ sent = <<ListDirectory(DirD)>>
    /\ current_path = DirD
    /\ history = <<>>
    /\ underflow
    /\ overflow_checks
    /\ ui_pc = "panicked"

\* The same start in a build without overflow checks: the subtraction
\* wrapped, and the FileManager runs with d in its history
C31_WitnessWrapped ==
    /\ sent = <<ListDirectory(DirD)>>
    /\ current_path = DirD
    /\ history = <<DirD>>
    /\ history_index = 0
    /\ underflow
    /\ ~overflow_checks
    /\ ui_pc = "run"

\* C32: after any sequence of navigate_to, go_back and go_forward calls,
\* whenever history is non-empty, history_index is a valid index into
\* history and history[history_index] equals current_path.
C32_IndexOnCurrentPath ==
    (ui_pc = "run" /\ history # <<>>) =>
        /\ history_index < Len(history)
        /\ history[history_index + 1] = current_path

\* The interface went from d up to the root; d was removed; go_back has
\* moved history_index onto d and navigate_to has refused d: the index is
\* on d and current_path is still the root
C32_Witness ==
    /\ ui_pc = "run"
    /\ sent = <<ListDirectory(DirD), ListDirectory(Root)>>
    /\ history = <<DirD, Root>>
    /\ history_index = 0
    /\ current_path = Root
    /\ ~IsDir(fs, DirD)

AllHistoryDirs == \A k \in 1..Len(history) : IsDir(fs, history[k])

\* C33: when history_index > 0 and all history entries are existing
\* directories, go_back moves current_path to the history entry before the
\* index without changing the history, and a go_forward right after it
\* restores current_path to its value before go_back.
C33_BackThenForward ==
    [][(GoBack /\ history_index > 0 /\ AllHistoryDirs) =>
          /\ current_path' = history[history_index]
          /\ history' = history
          /\ go_forward(FmState', fs', overflow_checks').current_path
                = current_path]_vars

\* The program started in d/sub with the saved history [d, d/sub], and
\* Back was pressed: current_path is d, but the history is [d, d] with the
\* index on its last entry; d/sub is gone from it, and go_forward leaves
\* current_path on d
C33_Witness ==
    /\ ui_pc = "run"
    /\ fs = FullTree /\ Len(fsHist) = 1
    /\ sent = <<ListDirectory(PathSub), ListDirectory(DirD)>>
    /\ current_path = DirD
    /\ history = <<DirD, DirD>>
    /\ history_index = 1
    /\ go_forward(FmState, fs, overflow_checks).current_path = DirD

\* C34: a paste with a non-empty clipboard enqueues exactly one Command,
\* CopyItem after copy_selection and MoveItem after cut_selection, from the
\* clipboard's path to current_path joined with that path's file name, and
\* empties the clipboard; with an empty clipboard no paste step exists, so
\* a second paste with no copy or cut between enqueues nothing.  The
\* clipboard is filled by copy_selection and cut_selection only.
C34_PasteOnce ==
    /\ [][Paste =>
            /\ clipboard # <<>>
            /\ Len(sent') = Len(sent) + 1
            /\ Len(cmdq') = Len(cmdq) + 1
            /\ cmdq'[Len(cmdq')].cmd = sent'[Len(sent')]
            /\ sent'[Len(sent')] =
                  [kind |-> IF clipboard[1].action = "Copy"
                              THEN "CopyItem" ELSE "MoveItem",
                   p |-> clipboard[1].path,
                   q |-> Join(current_path, FileName(clipboard[1].path))]
            /\ clipboard' = <<>>]_vars
    /\ [](clipboard = <<>> => ~ENABLED Paste)
    /\ [][(clipboard' # clipboard /\ clipboard' # <<>>) =>
            /\ CopySelection \/ CutSelection
            /\ clipboard'[1].path \in selected_items
            /\ CopySelection => clipboard'[1].action = "Copy"
            /\ CutSelection => clipboard'[1].action = "Cut"]_vars

\* d/a was cut in d and pasted in d/sub: one MoveItem(d/a, d/sub/a) is in
\* the Command Channel after the two listings, and the clipboard is empty
C34_Witness ==
    /\ ui_pc = "run"
    /\ Len(sent) = 3
    /\ sent[3] = MoveItem(PathA, PathSubA)
    /\ Len(cmdq) = 3
    /\ cmdq[3].cmd = sent[3]
    /\ current_path = PathSub
    /\ clipboard = <<>>
    /\ ~ENABLED Paste

============================================================================
